---- MODULE Spec2Model ----
(***************************************************************************)
(* BayesianOptimization, robo/solver/bayesian_optimization.py.             *)
(*                                                                         *)
(* The solver object and one call of run(), of initialize() or of          *)
(* choose_next() on it, as a state machine.  Each                          *)
(* action is one collaborator call of the loop together with the           *)
(* statements around it, so that a call that raises leaves the object in   *)
(* the state the code leaves it in.                                        *)
(*                                                                         *)
(* Encoding.  Python's None is the empty tuple.  A numpy array of shape    *)
(* (n, d) is a sequence of n rows, each a tuple of d numbers; an array of  *)
(* shape (n,) is a sequence of n numbers.  Indices are 1-based, so the     *)
(* code's X[0] is X[1] here.  A wall-clock difference is one tick.         *)
(***************************************************************************)
EXTENDS Integers, Sequences, FiniteSets, TLC

\* ---------------------------------------------------------------- bounds
\* run(num_iterations) is called with num_iterations in 0..MaxIter
MaxIter == 3
\* a caller-supplied prior observation set has 0..MaxPrior rows
MaxPrior == 2
\* initialize(n_init_points) is called directly with 0..MaxInit points
MaxInit == 3
\* train_intervall and num_save range over 1..MaxInterval
MaxInterval == 2

\* ------------------------------------------------------------------ task
n_dims == 1
X_lower == 0
X_upper == 1
\* np.random.uniform(X_lower, X_upper, n_dims): one input vector in bounds
Uniform == [1..n_dims -> X_lower..X_upper]
\* the objective values task.evaluate can return
Values == {0, 1}
\* the objectives of the task: every function from its inputs to these
\* values, up to a shift of the values (the minimum is 0)
Objectives == {f \in [Uniform -> Values] : \E x \in Uniform : f[x] = 0}
\* acquisition_func(new_x): one value, which is not the 0 of iteration 0
AcqValues == {1}

\* ------------------------------------------------------------- constants
None == << >>
\* default of initialize(n_init_points=3), which run() relies on
n_init_points_default == 3
\* self.n_restarts = 10
n_restarts == 10
\* time.time() - start_time
elapsed == 1
\* the three values the recommendation_strategy dispatch distinguishes
Strategies == {"None", "optimize_posterior_mean_and_std", "other"}

VARIABLES
    \* configuration, fixed by __init__
    recommendation_strategy, save_dir, num_save, train_intervall,
    model_is_gpy, objective,
    \* attributes of the solver
    X, Y, time_func_eval, time_optimization_overhead,
    model_untrained, incumbent, incumbent_value,
    \* the argument of the last initialize(), the arguments of run() or of a
    \* direct choose_next()
    n_init_points, num_iterations, X_arg, Y_arg,
    \* locals of run(); new_x is what choose_next returned; fresh is the
    \* outcome of the test for missing observations ("X is None and Y is None"
    \* in run, the else of "X is not None and Y is not None" in choose_next)
    it, new_x, startpoints, fresh, pc,
    \* collaborator calls made by the operation in progress, checkpoints persisted
    calls, saved

config == <<recommendation_strategy, save_dir, num_save, train_intervall,
            model_is_gpy, objective>>
arrays == <<X, Y, time_func_eval, time_optimization_overhead>>
locals == <<n_init_points, num_iterations, X_arg, Y_arg, it, new_x, startpoints, fresh>>
vars == <<config, arrays, model_untrained, incumbent, incumbent_value,
          locals, pc, calls, saved>>

\* ---------------------------------------------------------------- helpers
\* one collaborator call: which, in which iteration (0: the initialization),
\* whether it returned, and what it was given
Call(op, i, ok, arg) == [op |-> op, it |-> i, ok |-> ok, arg |-> arg]

zeros(n) == [i \in 1..n |-> 0]
zeros2(n, d) == [i \in 1..n |-> [j \in 1..d |-> 0]]

\* task.evaluate(x) on a batch of rows: one value row per input row
evaluate(batch) == [i \in 1..Len(batch) |-> <<objective[batch[i]]>>]

\* variant: the index of the last occurrence of the minimum
argmin_last(Ys) ==
    CHOOSE i \in 1..Len(Ys) :
        /\ \A j \in 1..Len(Ys) : Ys[i][1] <= Ys[j][1]
        /\ \A j \in (i + 1)..Len(Ys) : Ys[j][1] > Ys[i][1]

\* np.argmin(self.Y): index of the first occurrence of the minimum
argmin(Ys) ==
    CHOOSE i \in 1..Len(Ys) :
        /\ \A j \in 1..Len(Ys) : Ys[i][1] <= Ys[j][1]
        /\ \A j \in 1..(i - 1) : Ys[j][1] > Ys[i][1]

\* --------------------------------------------------------------- initialize
\* variant: np.zeros([n_init_points + 1, n_dims])
initialize_X_extra(n, xs, k) ==
    [i \in 1..(n + 1) |-> IF i <= k /\ i <= n THEN xs[i] ELSE [j \in 1..n_dims |-> 0]]

\* initialize(n) with the draws xs, when the first k evaluations returned
\* (k = n: initialize returns; k < n: evaluation k + 1 raised)
initialize_X(n, xs, k) ==
    [i \in 1..n |-> IF i <= k THEN xs[i] ELSE zeros2(n, n_dims)[i]]

initialize_Y(n, xs, k) ==
    [i \in 1..n |-> IF i <= k THEN evaluate(<<xs[i]>>)[1] ELSE zeros2(n, 1)[i]]

initialize_time_optimization_overhead(n, xs, k) ==
    [i \in 1..n |-> IF i <= k + 1 THEN elapsed ELSE zeros(n)[i]]

initialize_time_func_eval(n, xs, k) ==
    [i \in 1..n |-> IF i <= k THEN elapsed ELSE zeros(n)[i]]

initialize_calls(n, xs, k) ==
    [i \in 1..(IF k < n THEN k + 1 ELSE n) |-> Call("evaluate", 0, i <= k, <<xs[i]>>)]

\* --------------------------------------------------------------------- Init
\* __init__: the state after construction, for every configuration
Init ==
    /\ recommendation_strategy \in Strategies
    /\ save_dir \in BOOLEAN
    /\ num_save \in 1..MaxInterval
    /\ train_intervall \in 1..MaxInterval
    /\ model_is_gpy \in BOOLEAN
    \* num_save and the kind of the model are read only when save_dir is set
    /\ save_dir \/ (num_save = 1 /\ ~model_is_gpy)
    /\ objective \in Objectives
    /\ X = None
    /\ Y = None
    /\ time_func_eval = None
    /\ time_optimization_overhead = None
    /\ model_untrained = TRUE
    /\ incumbent = None
    /\ incumbent_value = None
    /\ n_init_points = 0
    /\ num_iterations = 0
    /\ X_arg = None
    /\ Y_arg = None
    /\ it = 0
    /\ new_x = None
    /\ startpoints = None
    /\ fresh = FALSE
    /\ pc = "idle"
    /\ calls = << >>
    /\ saved = << >>

\* ----------------------------------------------------- initialize(), direct
\* it can be called again on the arrays an earlier call left
Initialize ==
    /\ pc \in {"idle", "initialized"}
    /\ \E n \in 0..MaxInit : \E xs \in [1..n -> Uniform] :
        /\ X' = initialize_X(n, xs, n)
        /\ Y' = initialize_Y(n, xs, n)
        /\ time_func_eval' = initialize_time_func_eval(n, xs, n)
        /\ time_optimization_overhead' = initialize_time_optimization_overhead(n, xs, n)
        /\ calls' = initialize_calls(n, xs, n)
        /\ n_init_points' = n
    /\ pc' = "initialized"
    /\ UNCHANGED <<config, model_untrained, incumbent, incumbent_value,
                   num_iterations, X_arg, Y_arg, it, new_x, startpoints, fresh, saved>>

\* ------------------------------------------------------------------- run()
\* for it in range(1, num_iterations)
range_start == 1

\* variant: range(1, num_iterations + 1)
InLoopInclusive == it <= num_iterations

\* the loop has an iteration left
InLoop == it < num_iterations

\* variant: self.X[-1], self.Y[-1]
seed_last(A) == A[Len(A)]

\* self.incumbent = self.X[0]; self.incumbent_value = self.Y[0]
seed(A) == A[1]

\* variant: without the test of num_save
SaveAlways(i) == save_dir

\* if self.save_dir is not None and (it) % self.num_save == 0
SaveDue(i) == save_dir /\ i % num_save = 0

\* self.save_iteration(0, hyperparameters=None, acquisition_value=0)
Checkpoint0 == [iteration |-> 0, hyperparameters |-> None, acquisition_value |-> <<0>>]

\* run(num_iterations) with X is None and Y is None, up to the loop
RunFresh ==
    /\ pc = "idle"
    /\ \E N \in 0..MaxIter : \E xs \in [1..n_init_points_default -> Uniform] :
        LET n == n_init_points_default
            evals == initialize_calls(n, xs, n) IN
        /\ num_iterations' = N
        /\ X' = initialize_X(n, xs, n)
        /\ Y' = initialize_Y(n, xs, n)
        /\ time_func_eval' = initialize_time_func_eval(n, xs, n)
        /\ time_optimization_overhead' = initialize_time_optimization_overhead(n, xs, n)
        /\ \/ /\ calls' = IF SaveDue(0)
                          THEN Append(evals, Call("save_iteration", 0, TRUE, << >>))
                          ELSE evals
              /\ saved' = IF SaveDue(0) THEN Append(saved, Checkpoint0) ELSE saved
              /\ pc' = "loop"
           \* save_iteration raises
           \/ /\ SaveDue(0)
              /\ calls' = Append(evals, Call("save_iteration", 0, FALSE, << >>))
              /\ saved' = saved
              /\ pc' = "raised"
    /\ incumbent' = seed(X')
    /\ incumbent_value' = seed(Y')
    /\ n_init_points' = n_init_points_default
    /\ X_arg' = None
    /\ Y_arg' = None
    /\ fresh' = TRUE
    /\ it' = range_start
    /\ UNCHANGED <<config, model_untrained, new_x, startpoints>>

\* task.evaluate raises inside the initialize() that run() calls
RunFreshRaise ==
    /\ pc = "idle"
    /\ \E N \in 0..MaxIter : \E xs \in [1..n_init_points_default -> Uniform] :
       \E k \in 0..(n_init_points_default - 1) :
        LET n == n_init_points_default IN
        /\ num_iterations' = N
        /\ X' = initialize_X(n, xs, k)
        /\ Y' = initialize_Y(n, xs, k)
        /\ time_func_eval' = initialize_time_func_eval(n, xs, k)
        /\ time_optimization_overhead' = initialize_time_optimization_overhead(n, xs, k)
        /\ calls' = initialize_calls(n, xs, k)
    /\ n_init_points' = n_init_points_default
    /\ X_arg' = None
    /\ Y_arg' = None
    /\ fresh' = TRUE
    /\ pc' = "raised"
    /\ UNCHANGED <<config, model_untrained, incumbent, incumbent_value,
                   it, new_x, startpoints, saved>>

\* the prior observation sets a caller can supply: rows of the task, with
\* their objective values
Priors == UNION {[1..n -> Uniform] : n \in 0..MaxPrior}

\* variant: timings that are not reset to zero
prior_times_elapsed(A) == [i \in 1..Len(A) |-> elapsed]

\* np.zeros([self.X.shape[0]])
prior_times(A) == zeros(Len(A))

\* run(num_iterations, X, Y) with both X and Y supplied, up to the loop
RunPrior ==
    /\ pc = "idle"
    /\ \E N \in 0..MaxIter : \E xs \in Priors :
        /\ num_iterations' = N
        /\ X_arg' = xs
        /\ Y_arg' = evaluate(xs)
    /\ X' = X_arg'
    /\ Y' = Y_arg'
    /\ time_func_eval' = prior_times(X')
    /\ time_optimization_overhead' = prior_times(X')
    /\ calls' = << >>
    /\ fresh' = FALSE
    /\ it' = range_start
    /\ pc' = "loop"
    /\ UNCHANGED <<config, model_untrained, incumbent, incumbent_value,
                   n_init_points, new_x, startpoints, saved>>

\* ------------------------------------------------------ run(): one iteration
\* variant: retrain in every iteration
do_optimize_always(i) == TRUE

\* if it % self.train_intervall == 0: do_optimize = True
do_optimize(i) == i % train_intervall = 0

\* variant: the acquisition function is rebound before the model is trained
update_before_train(i) ==
    IF do_optimize(i)
    THEN calls \o <<Call("update", i, TRUE, << >>),
                    Call("train", i, TRUE, <<Len(X), Len(Y)>>)>>
    ELSE calls

\* the calls of choose_next up to and including the training
trained(i) ==
    IF do_optimize(i)
    THEN Append(calls, Call("train", i, TRUE, <<Len(X), Len(Y)>>))
    ELSE calls

\* choose_next(self.X, self.Y, do_optimize): train, update, maximize
ChooseNext ==
    /\ pc = "loop"
    /\ InLoop
    /\ model_untrained' = FALSE
    /\ calls' = trained(it) \o <<Call("update", it, TRUE, << >>),
                                  Call("maximize", it, TRUE, << >>)>>
    \* x = self.maximize_func.maximize(): one row within the task bounds
    /\ \E x \in Uniform : new_x' = <<x>>
    /\ pc' = "incumbent"
    /\ UNCHANGED <<config, arrays, incumbent, incumbent_value, n_init_points,
                   num_iterations, X_arg, Y_arg, it, startpoints, fresh, saved>>

\* variant: the exception is logged and not raised again
on_train_exception_swallowed == "incumbent"

\* where run() is after self.model.train raised: except Exception, e: ... raise
on_train_exception == "raised"

\* self.model.train raises
ChooseNextTrainRaise ==
    /\ pc = "loop"
    /\ InLoop
    /\ do_optimize(it)
    /\ calls' = Append(calls, Call("train", it, FALSE, <<Len(X), Len(Y)>>))
    /\ pc' = on_train_exception
    /\ UNCHANGED <<config, arrays, model_untrained, incumbent, incumbent_value,
                   locals, saved>>

\* self.acquisition_func.update raises
ChooseNextUpdateRaise ==
    /\ pc = "loop"
    /\ InLoop
    /\ model_untrained' = FALSE
    /\ calls' = Append(trained(it), Call("update", it, FALSE, << >>))
    /\ pc' = "raised"
    /\ UNCHANGED <<config, arrays, incumbent, incumbent_value, locals, saved>>

\* variant: the failing call is caught and the iteration tried again
retried == "loop"

\* where run() is after maximize, task.evaluate or save_iteration raised
\* inside its loop: no try statement encloses these calls
propagated == "raised"

\* self.maximize_func.maximize raises
ChooseNextMaximizeRaise ==
    /\ pc = "loop"
    /\ InLoop
    /\ model_untrained' = FALSE
    /\ calls' = trained(it) \o <<Call("update", it, TRUE, << >>),
                                  Call("maximize", it, FALSE, << >>)>>
    /\ pc' = propagated
    /\ UNCHANGED <<config, arrays, incumbent, incumbent_value, locals, saved>>

\* np.append(self.time_optimization_overhead, np.array([time_optimization_overhead]))
append_overhead(t) == Append(t, elapsed)

\* the n_restarts random start points of one incumbent search: the lists
\* that alternate two different points of the bounds
RestartDraws ==
    {[i \in 1..n_restarts |-> IF i % 2 = 1 THEN d[1] ELSE d[2]] :
        d \in {e \in Uniform \X Uniform : e[1] # e[2]}}

\* what a recommendation strategy returns: a point of the bounds and the
\* model's estimate there, taken to be the objective's value
StrategyResults == {<<x, <<objective[x]>>>> : x \in Uniform}

\* variant: without the best observed point
multi_startpoints_no_best(draws, best) == draws

\* startpoints = [uniform ... for i in range(self.n_restarts)]; startpoints.append(self.X[best_idx])
multi_startpoints(draws, best) == Append(draws, best)

\* recommendation_strategy is None: best point seen so far
RecommendBestSeen ==
    /\ pc = "incumbent"
    /\ recommendation_strategy = "None"
    /\ Len(Y) > 0
    /\ incumbent' = X[argmin(Y)]
    /\ incumbent_value' = Y[argmin(Y)]
    /\ calls' = Append(calls, Call("incumbent", it, TRUE, << >>))
    /\ time_optimization_overhead' = append_overhead(time_optimization_overhead)
    /\ pc' = "evaluate"
    /\ UNCHANGED <<config, X, Y, time_func_eval, model_untrained, locals, saved>>

\* self.incumbent, self.incumbent_value = self.recommendation_strategy(...),
\* called with the keyword arguments kw, which returns or raises
Recommended(kw) ==
    \/ /\ \E r \in StrategyResults :
            /\ incumbent' = r[1]
            /\ incumbent_value' = r[2]
       /\ calls' = Append(calls, Call("incumbent", it, TRUE, kw))
       /\ time_optimization_overhead' = append_overhead(time_optimization_overhead)
       /\ pc' = "evaluate"
    \/ /\ calls' = Append(calls, Call("incumbent", it, FALSE, kw))
       /\ pc' = "raised"
       /\ UNCHANGED <<incumbent, incumbent_value, time_optimization_overhead>>

\* recommendation_strategy is optimize_posterior_mean_and_std
RecommendMultiRestart ==
    /\ pc = "incumbent"
    /\ recommendation_strategy = "optimize_posterior_mean_and_std"
    /\ Len(Y) > 0
    /\ \E draws \in RestartDraws : startpoints' = multi_startpoints(draws, X[argmin(Y)])
    /\ Recommended(<<"startpoints", "with_gradients=True">>)
    /\ UNCHANGED <<config, X, Y, time_func_eval, model_untrained, n_init_points,
                   num_iterations, X_arg, Y_arg, it, new_x, fresh, saved>>

\* any other recommendation_strategy: startpoints=startpoint, one row
RecommendSingleStart ==
    /\ pc = "incumbent"
    /\ recommendation_strategy = "other"
    /\ Len(Y) > 0
    /\ startpoints' = X[argmin(Y)]
    /\ Recommended(<<"startpoints">>)
    /\ UNCHANGED <<config, X, Y, time_func_eval, model_untrained, n_init_points,
                   num_iterations, X_arg, Y_arg, it, new_x, fresh, saved>>

\* np.argmin of an empty array raises ValueError
ArgminRaise ==
    /\ pc = "incumbent"
    /\ Len(Y) = 0
    /\ pc' = "raised"
    /\ UNCHANGED <<config, arrays, model_untrained, incumbent, incumbent_value,
                   locals, calls, saved>>

\* variant: the evaluation time appended twice
append_time_twice(t) == Append(Append(t, elapsed), elapsed)

\* np.append(self.time_func_eval, np.array([time_func_eval]))
append_time(t) == Append(t, elapsed)

\* variant: the arguments of np.append exchanged
prepend_rows(A, rows) == rows \o A

\* np.append(self.X, new_x, axis=0), np.append(self.Y, new_y, axis=0)
append_rows(A, rows) == A \o rows

\* the checkpoints save_iteration(it, ...) can persist at the end of iteration i
Checkpoints(i) ==
    IF model_is_gpy
    THEN {[iteration |-> i, hyperparameters |-> <<"param_array">>,
           acquisition_value |-> <<a>>] : a \in AcqValues}
    ELSE {[iteration |-> i, hyperparameters |-> None, acquisition_value |-> None]}

\* new_y = self.task.evaluate(new_x), the appends, and the checkpoint when due
EvaluateAppend ==
    /\ pc = "evaluate"
    /\ time_func_eval' = append_time(time_func_eval)
    /\ X' = append_rows(X, new_x)
    /\ Y' = append_rows(Y, evaluate(new_x))
    /\ LET appended == calls \o <<Call("evaluate", it, TRUE, new_x),
                                  Call("append", it, TRUE, << >>)>> IN
       \/ /\ ~SaveDue(it)
          /\ calls' = appended
          /\ saved' = saved
          /\ it' = it + 1
          /\ pc' = "loop"
       \/ /\ SaveDue(it)
          /\ calls' = Append(appended, Call("save_iteration", it, TRUE, << >>))
          /\ \E c \in Checkpoints(it) : saved' = Append(saved, c)
          /\ it' = it + 1
          /\ pc' = "loop"
       \* save_iteration raises
       \/ /\ SaveDue(it)
          /\ calls' = Append(appended, Call("save_iteration", it, FALSE, << >>))
          /\ saved' = saved
          /\ it' = it
          /\ pc' = propagated
    /\ UNCHANGED <<config, time_optimization_overhead, model_untrained,
                   incumbent, incumbent_value, n_init_points, num_iterations,
                   X_arg, Y_arg, new_x, startpoints, fresh>>

\* self.task.evaluate(new_x) raises
EvaluateRaise ==
    /\ pc = "evaluate"
    /\ calls' = Append(calls, Call("evaluate", it, FALSE, new_x))
    /\ pc' = propagated
    /\ UNCHANGED <<config, arrays, model_untrained, incumbent, incumbent_value,
                   locals, saved>>

\* variant: the incumbent is recomputed over all of Y before it is returned
ReturnRecomputed ==
    /\ pc = "loop"
    /\ ~InLoop
    /\ incumbent_value # None
    /\ incumbent' = IF recommendation_strategy = "None" THEN X[argmin(Y)] ELSE incumbent
    /\ incumbent_value' =
           IF recommendation_strategy = "None" THEN Y[argmin(Y)] ELSE incumbent_value
    /\ pc' = "done"
    /\ UNCHANGED <<config, arrays, model_untrained, locals, calls, saved>>

\* return self.incumbent, self.incumbent_value
Return ==
    /\ pc = "loop"
    /\ ~InLoop
    /\ incumbent_value # None
    /\ pc' = "done"
    /\ UNCHANGED <<config, arrays, model_untrained, incumbent, incumbent_value,
                   locals, calls, saved>>

\* the log line before the return formats self.incumbent_value, which no
\* statement has set
ReturnRaise ==
    /\ pc = "loop"
    /\ ~InLoop
    /\ incumbent_value = None
    /\ pc' = "raised"
    /\ UNCHANGED <<config, arrays, model_untrained, incumbent, incumbent_value,
                   locals, calls, saved>>

\* ---------------------------------------------------- choose_next(), direct
\* the arguments with which a caller leaves out the inputs, the values or both
Absent ==
    {<<None, None>>} \cup {<<xs, None>> : xs \in Priors}
                     \cup {<<None, evaluate(xs)>> : xs \in Priors}

\* variant: only the first row of the initial batch
fallback_result_first(A) == <<A[1]>>

\* else: self.initialize(); x = self.X
fallback_result(A) == A

\* the calls of choose_next(X, Y, opt) outside run, up to and including the
\* training
trained_direct(Xs, Ys, opt) ==
    IF opt THEN <<Call("train", 0, TRUE, <<Len(Xs), Len(Ys)>>)>> ELSE << >>

\* choose_next(X, Y, do_optimize) with both X and Y supplied: train, update,
\* maximize, return x
ChooseNextDirect ==
    /\ pc = "idle"
    /\ \E xs \in Priors : \E opt \in BOOLEAN :
        /\ X_arg' = xs
        /\ Y_arg' = evaluate(xs)
        /\ calls' = trained_direct(X_arg', Y_arg', opt)
                        \o <<Call("update", 0, TRUE, << >>),
                             Call("maximize", 0, TRUE, << >>)>>
    /\ model_untrained' = FALSE
    /\ \E x \in Uniform : new_x' = <<x>>
    /\ fresh' = FALSE
    /\ pc' = "chosen"
    /\ UNCHANGED <<config, arrays, incumbent, incumbent_value, n_init_points,
                   num_iterations, it, startpoints, saved>>

\* choose_next(X, Y, do_optimize) with both supplied, when train, update or
\* maximize raises
ChooseNextDirectRaise ==
    /\ pc = "idle"
    /\ \E xs \in Priors : \E opt \in BOOLEAN :
        /\ X_arg' = xs
        /\ Y_arg' = evaluate(xs)
        /\ \/ /\ opt
              /\ calls' = <<Call("train", 0, FALSE, <<Len(X_arg'), Len(Y_arg')>>)>>
              /\ model_untrained' = model_untrained
           \/ /\ calls' = Append(trained_direct(X_arg', Y_arg', opt),
                                 Call("update", 0, FALSE, << >>))
              /\ model_untrained' = FALSE
           \/ /\ calls' = trained_direct(X_arg', Y_arg', opt)
                              \o <<Call("update", 0, TRUE, << >>),
                                   Call("maximize", 0, FALSE, << >>)>>
              /\ model_untrained' = FALSE
    /\ fresh' = FALSE
    /\ pc' = "choose_raised"
    /\ UNCHANGED <<config, arrays, incumbent, incumbent_value, n_init_points,
                   num_iterations, it, new_x, startpoints, saved>>

\* choose_next with X or Y left out: self.initialize(); x = self.X
ChooseNextFallback ==
    /\ pc = "idle"
    /\ \E a \in Absent : X_arg' = a[1] /\ Y_arg' = a[2]
    /\ \E xs \in [1..n_init_points_default -> Uniform] :
        LET n == n_init_points_default IN
        /\ X' = initialize_X(n, xs, n)
        /\ Y' = initialize_Y(n, xs, n)
        /\ time_func_eval' = initialize_time_func_eval(n, xs, n)
        /\ time_optimization_overhead' = initialize_time_optimization_overhead(n, xs, n)
        /\ calls' = initialize_calls(n, xs, n)
    /\ n_init_points' = n_init_points_default
    /\ new_x' = fallback_result(X')
    /\ fresh' = TRUE
    /\ pc' = "chosen"
    /\ UNCHANGED <<config, model_untrained, incumbent, incumbent_value,
                   num_iterations, it, startpoints, saved>>

\* task.evaluate raises inside the initialize() that choose_next calls
ChooseNextFallbackRaise ==
    /\ pc = "idle"
    /\ \E a \in Absent : X_arg' = a[1] /\ Y_arg' = a[2]
    /\ \E xs \in [1..n_init_points_default -> Uniform] :
       \E k \in 0..(n_init_points_default - 1) :
        LET n == n_init_points_default IN
        /\ X' = initialize_X(n, xs, k)
        /\ Y' = initialize_Y(n, xs, k)
        /\ time_func_eval' = initialize_time_func_eval(n, xs, k)
        /\ time_optimization_overhead' = initialize_time_optimization_overhead(n, xs, k)
        /\ calls' = initialize_calls(n, xs, k)
    /\ n_init_points' = n_init_points_default
    /\ fresh' = TRUE
    /\ pc' = "choose_raised"
    /\ UNCHANGED <<config, model_untrained, incumbent, incumbent_value,
                   num_iterations, it, new_x, startpoints, saved>>

Next ==
    \/ Initialize
    \/ RunFresh
    \/ RunFreshRaise
    \/ RunPrior
    \/ ChooseNext
    \/ ChooseNextTrainRaise
    \/ ChooseNextUpdateRaise
    \/ ChooseNextMaximizeRaise
    \/ RecommendBestSeen
    \/ RecommendMultiRestart
    \/ RecommendSingleStart
    \/ ArgminRaise
    \/ EvaluateAppend
    \/ EvaluateRaise
    \/ Return
    \/ ReturnRaise
    \/ ChooseNextDirect
    \/ ChooseNextDirectRaise
    \/ ChooseNextFallback
    \/ ChooseNextFallbackRaise

Spec == Init /\ [][Next]_vars

\* ================================================================== claims
\* --------------------------------------------------- what the claims speak of
\* the calls of collaborator op made in iteration i (0: the initialization)
CallsOf(op, i) == {n \in 1..Len(calls) : calls[n].op = op /\ calls[n].it = i}

Count(op, i) == Cardinality(CallsOf(op, i))

SameLengths ==
    /\ Len(X) = Len(Y)
    /\ Len(X) = Len(time_func_eval)
    /\ Len(X) = Len(time_optimization_overhead)

\* i is the first index at which the value rows Ys are minimal
IsFirstMin(Ys, i) ==
    /\ i \in 1..Len(Ys)
    /\ \A j \in 1..Len(Ys) : Ys[i][1] <= Ys[j][1]
    /\ \A j \in 1..(i - 1) : Ys[j][1] > Ys[i][1]

IsEvaluated(c) == c.op = "evaluate" /\ c.ok

\* the rows the task evaluated successfully, in the order of the calls
EvaluatedRows ==
    LET ev == SelectSeq(calls, IsEvaluated) IN
    [i \in 1..Len(ev) |-> ev[i].arg[1]]

\* the values of the objective on these rows
ValuesOf(rows) == [i \in 1..Len(rows) |-> <<objective[rows[i]]>>]

InBounds(x) ==
    /\ Len(x) = n_dims
    /\ \A d \in 1..n_dims : X_lower <= x[d] /\ x[d] <= X_upper

\* run is between two iterations, or has returned
BetweenIterations == pc \in {"loop", "done"}

\* run is in its loop or has returned, with it - 1 iterations completed
Running == pc \in {"loop", "incumbent", "evaluate", "done"}

\* ------------------------------------------------------------------------ C1
\* C1: in a fresh run with num_iterations = N >= 1 in which nothing raises,
\* after k completed iterations (0 <= k <= N - 1) X, Y and both timing arrays
\* hold n_init + k entries each, n_init being the number of evaluations the
\* initialization made; when run returns they hold n_init + (N - 1).
C1_RowsAfterIterations ==
    (fresh /\ BetweenIterations /\ num_iterations >= 1) =>
        LET n_init == Count("evaluate", 0) IN
        /\ it \in 1..num_iterations
        /\ Len(X) = n_init + (it - 1)
        /\ SameLengths
        /\ pc = "done" => Len(X) = n_init + (num_iterations - 1)

C1_Witness ==
    /\ fresh
    /\ pc = "done"
    /\ num_iterations = 3
    /\ Len(X) = n_init_points_default + 2
    /\ Len(time_func_eval) = n_init_points_default + 2

\* ------------------------------------------------------------------------ C2
\* C2 as stated: with no recommendation strategy, after every completed
\* iteration and when run returns, the incumbent value is the minimum of all
\* recorded values and the incumbent is the row at the first index attaining it.
C2_IncumbentIsMinOfAll ==
    (recommendation_strategy = "None" /\ (pc = "done" \/ (pc = "loop" /\ it > 1))) =>
        \E i \in 1..Len(Y) :
            /\ IsFirstMin(Y, i)
            /\ incumbent = X[i]
            /\ incumbent_value = Y[i]

\* C2 amended: with no recommendation strategy, the incumbent is the first
\* argmin of the values recorded when it was recomputed: right after the
\* recomputation it is the first minimum of all of Y, and after a completed
\* iteration (and at the return of a run that iterated) it is the first
\* minimum of Y without the row that iteration appended.
C2_IncumbentIsMinBeforeAppend ==
    recommendation_strategy = "None" =>
        /\ pc = "evaluate" =>
            \E i \in 1..Len(Y) :
                /\ IsFirstMin(Y, i)
                /\ incumbent = X[i]
                /\ incumbent_value = Y[i]
        /\ (BetweenIterations /\ it > 1) =>
            LET before == SubSeq(Y, 1, Len(Y) - 1) IN
            \E i \in 1..Len(before) :
                /\ IsFirstMin(before, i)
                /\ incumbent = X[i]
                /\ incumbent_value = Y[i]

\* the last iteration evaluated a value below every earlier one, and the
\* incumbent that run returns is an earlier row
C2_Witness ==
    /\ recommendation_strategy = "None"
    /\ pc = "done"
    /\ it > 1
    /\ \A j \in 1..(Len(Y) - 1) : Y[j][1] > Y[Len(Y)][1]
    /\ incumbent_value # Y[Len(Y)]

\* ------------------------------------------------------------------------ C3
\* C3: when model.train raises in iteration k, run is left with that
\* exception: no call follows the failed one, iteration k made no other call
\* (no update, maximize, incumbent recomputation, evaluation, append,
\* checkpoint), and X, Y and both timing arrays hold the initial or imported
\* entries followed by those of the iterations 1..k-1, one each.
C3_TrainFailureAborts ==
    \A n \in 1..Len(calls) :
        (calls[n].op = "train" /\ ~calls[n].ok /\ calls[n].it >= 1) =>
            LET k == calls[n].it IN
            /\ pc = "raised"
            /\ n = Len(calls)
            /\ \A m \in 1..Len(calls) : calls[m].it = k => m = n
            /\ \A j \in 1..(k - 1) : Count("evaluate", j) = 1 /\ Count("append", j) = 1
            /\ X = X_arg \o EvaluatedRows
            /\ Y = Y_arg \o ValuesOf(EvaluatedRows)
            /\ Len(X) = (IF fresh THEN Count("evaluate", 0) ELSE Len(X_arg)) + (k - 1)
            /\ SameLengths

C3_Witness ==
    /\ pc = "raised"
    /\ Len(calls) > 0
    /\ calls[Len(calls)].op = "train"
    /\ ~calls[Len(calls)].ok
    /\ calls[Len(calls)].it = 2
    /\ Count("append", 1) = 1

\* ------------------------------------------------------------------------ C4
\* C4: model.train is called in iteration k iff k mod train_intervall = 0,
\* and then once: an iteration that has begun has one train call when
\* k mod train_intervall = 0 and none otherwise.
C4_TrainIffDue ==
    \A k \in 1..it :
        /\ Count("train", k) <= 1
        /\ Count("train", k) = 1 => k % train_intervall = 0
        /\ (Count("train", k) + Count("update", k) > 0 /\ k % train_intervall = 0)
               => Count("train", k) = 1
        /\ (Running /\ k < it) => Count("update", k) = 1

C4_Witness ==
    /\ pc = "done"
    /\ train_intervall = 2
    /\ num_iterations = 3
    /\ Count("train", 1) = 0
    /\ Count("train", 2) = 1

\* ------------------------------------------------------------------------ C5
SavedIterations == {saved[n].iteration : n \in 1..Len(saved)}

SavedInOrder ==
    /\ \A n \in 1..Len(saved) : saved[n].iteration % num_save = 0
    /\ \A m, n \in 1..Len(saved) : m < n => saved[m].iteration < saved[n].iteration

\* C5 as stated: with a save directory, the checkpoints persisted are those of
\* the iteration indices i with i mod num_save = 0, iteration 0 included, for
\* every run; each once and in increasing order; without one, none.
C5_CheckpointsFromZero ==
    /\ ~save_dir => saved = << >>
    /\ SavedInOrder
    /\ (save_dir /\ Running) =>
           SavedIterations = {i \in 0..(it - 1) : i % num_save = 0}

\* C5 amended: with a save directory, the checkpoints persisted are those of
\* the iterations i >= 1 of the loop with i mod num_save = 0, each once and
\* in increasing order, preceded by one for iteration 0 only in a run that
\* was given no prior observations; without a save directory, none.
C5_CheckpointsWhenDue ==
    /\ ~save_dir => saved = << >>
    /\ SavedInOrder
    /\ (save_dir /\ Running) =>
           SavedIterations =
               {i \in (IF fresh THEN 0 ELSE 1)..(it - 1) : i % num_save = 0}

\* a run on prior observations with num_save = 2: the only checkpoint is
\* that of iteration 2
C5_Witness ==
    /\ save_dir
    /\ ~fresh
    /\ num_save = 2
    /\ pc = "done"
    /\ num_iterations = 3
    /\ Len(saved) = 1
    /\ saved[1].iteration = 2

IsInitEvaluation(c) == c.op = "evaluate" /\ c.it = 0

\* C7: when initialize(n_init_points) has returned, whatever the arrays held
\* before, X has n_init_points rows of n_dims columns, Y has n_init_points
\* rows of one column, both timing arrays have n_init_points entries, and
\* the task was evaluated n_init_points times, the i-th time on row i alone.
C7_InitializeShapes ==
    (pc = "initialized" \/ (fresh /\ pc = "loop" /\ it = 1)) =>
        LET evals == SelectSeq(calls, IsInitEvaluation) IN
        /\ Len(X) = n_init_points
        /\ \A i \in 1..Len(X) : Len(X[i]) = n_dims
        /\ Len(Y) = n_init_points
        /\ \A i \in 1..Len(Y) : Len(Y[i]) = 1
        /\ Len(time_func_eval) = n_init_points
        /\ Len(time_optimization_overhead) = n_init_points
        /\ Len(evals) = n_init_points
        /\ \A i \in 1..Len(evals) : evals[i].ok /\ evals[i].arg = <<X[i]>>

\* initialize(0) has returned: nothing was evaluated and the arrays are empty
C7_Witness ==
    /\ pc = "initialized"
    /\ n_init_points = 0
    /\ X = << >>
    /\ time_func_eval = << >>
    /\ calls = << >>

\* ------------------------------------------------------------------------ C8
\* C8 as stated: in every state of run the four arrays have the same length.
C8_SameLengthsAlways ==
    pc \notin {"idle", "initialized"} => SameLengths

\* C8 amended: X, Y and the evaluation timings have the same length in every
\* state; the overhead timings have that length too whenever run is between
\* iterations (before the first, after each completed one, at its return)
\* and while choose_next and the incumbent recomputation run, and exactly one
\* entry more from the end of the incumbent recomputation until the
\* evaluated candidate is appended, also when the evaluation raises.
C8_SameLengthsBetweenIterations ==
    /\ Len(X) = Len(Y)
    /\ Len(X) = Len(time_func_eval)
    /\ pc \in {"loop", "incumbent", "done"} => SameLengths
    /\ pc = "evaluate" => Len(time_optimization_overhead) = Len(X) + 1
    /\ pc = "raised" =>
           Len(time_optimization_overhead) =
               IF /\ Len(calls) > 0
                  /\ calls[Len(calls)].op = "evaluate"
                  /\ calls[Len(calls)].it > 0
               THEN Len(X) + 1
               ELSE Len(X)

\* the evaluation of the second iteration raised
C8_Witness ==
    /\ pc = "raised"
    /\ it = 2
    /\ calls[Len(calls)].op = "evaluate"
    /\ Len(X) = Len(time_func_eval)
    /\ Len(time_optimization_overhead) = Len(X) + 1

\* ------------------------------------------------------------------------ C9
\* C9: a run without prior observations, before its first iteration: the
\* observation set is populated, the incumbent is the first initialization
\* point with its recorded value, with a save directory exactly one
\* checkpoint is persisted, for iteration 0, without hyperparameters and with
\* acquisition value 0, and nothing was trained, updated or maximized.
C9_BeforeFirstIteration ==
    (fresh /\ pc = "loop" /\ it = 1) =>
        /\ Len(X) > 0
        /\ Len(X) = Count("evaluate", 0)
        /\ incumbent = X[1]
        /\ incumbent_value = Y[1]
        /\ save_dir => saved = <<[iteration |-> 0, hyperparameters |-> << >>,
                                  acquisition_value |-> <<0>>]>>
        /\ ~save_dir => saved = << >>
        /\ \A n \in 1..Len(calls) : calls[n].op \notin {"train", "update", "maximize"}
        /\ model_untrained

\* the first initialization point is not the best one
C9_Witness ==
    /\ fresh
    /\ pc = "loop"
    /\ it = 1
    /\ save_dir
    /\ model_is_gpy
    /\ Len(saved) = 1
    /\ Y[1][1] > Y[2][1]
    /\ X[1] # X[2]

\* ----------------------------------------------------------------------- C10
\* C10: a run given prior inputs and values adopts them: until the first
\* iteration has evaluated its candidate X and Y are the supplied arrays,
\* nothing was drawn or evaluated for initialization, and both timing arrays
\* are zeros of the length of the supplied inputs.
C10_PriorAdopted ==
    (~fresh /\ it = 1 /\ pc \in {"loop", "incumbent"}) =>
        /\ X = X_arg
        /\ Y = Y_arg
        /\ \A n \in 1..Len(calls) : calls[n].op # "evaluate"
        /\ Len(time_func_eval) = Len(X_arg)
        /\ Len(time_optimization_overhead) = Len(X_arg)
        /\ \A i \in 1..Len(X_arg) :
            time_func_eval[i] = 0 /\ time_optimization_overhead[i] = 0
        /\ \A n \in 1..Len(calls) :
            calls[n].op = "train" => calls[n].arg = <<Len(X_arg), Len(Y_arg)>>

\* the first iteration of a run on two different prior rows has chosen its
\* candidate
C10_Witness ==
    /\ ~fresh
    /\ pc = "incumbent"
    /\ it = 1
    /\ Len(X) = 2
    /\ X[1] # X[2]
    /\ time_func_eval = <<0, 0>>

\* ----------------------------------------------------------------------- C11
\* the operation in progress has called none of model.train,
\* acquisition_func.update and maximize_func.maximize
NoModelCalls ==
    \A n \in 1..Len(calls) : calls[n].op \notin {"train", "update", "maximize"}

\* the last two calls are one returned update and after it one returned
\* maximize, the only maximize call of iteration i
UpdateThenMaximize(i) ==
    /\ Len(calls) >= 2
    /\ calls[Len(calls) - 1] = Call("update", i, TRUE, << >>)
    /\ calls[Len(calls)] = Call("maximize", i, TRUE, << >>)
    /\ Count("maximize", i) = 1
    /\ Count("update", i) = 1

\* C11: choose_next given both inputs and values (directly or by run)
\* returns one candidate row within the bounds, the result of the one
\* maximize call, made after the one update call; it leaves the arrays
\* alone.  choose_next given no inputs or no values runs initialize, calls
\* none of train, update and maximize, and returns all of self.X, the
\* initial batch.
C11_ChooseNextResult ==
    /\ pc = "incumbent" =>
        /\ Len(new_x) = 1
        /\ InBounds(new_x[1])
        /\ UpdateThenMaximize(it)
    /\ (pc = "chosen" /\ ~fresh) =>
        /\ Len(new_x) = 1
        /\ InBounds(new_x[1])
        /\ UpdateThenMaximize(0)
        /\ Count("evaluate", 0) = 0
        /\ X = None /\ Y = None
    /\ (pc = "chosen" /\ fresh) =>
        /\ X_arg = None \/ Y_arg = None
        /\ NoModelCalls
        /\ model_untrained
        /\ Count("evaluate", 0) = n_init_points_default
        /\ Len(X) = n_init_points_default
        /\ new_x = X

\* choose_next was given inputs without values and returned the three rows
\* of the initial batch, which are not all the same
C11_Witness ==
    /\ pc = "chosen"
    /\ fresh
    /\ Len(X_arg) = 2
    /\ Y_arg = None
    /\ Len(new_x) = 3
    /\ new_x[1] # new_x[3]

\* ----------------------------------------------------------------------- C12
\* the calls of iteration k, in the order in which they were made
CallsIn(k) ==
    LET InK(c) == c.it = k IN SelectSeq(calls, InK)

\* the order of the calls of an iteration k of run in which none raises:
\* train (when due), update, maximize, incumbent, evaluate, append,
\* save_iteration (when due)
FirstCall(k) == IF k % train_intervall = 0 THEN "train" ELSE "update"

LastCall(k) == IF save_dir /\ k % num_save = 0 THEN "save_iteration" ELSE "append"

Follows(a, b, k) ==
    \/ a = "train" /\ b = "update" /\ k % train_intervall = 0
    \/ a = "update" /\ b = "maximize"
    \/ a = "maximize" /\ b = "incumbent"
    \/ a = "incumbent" /\ b = "evaluate"
    \/ a = "evaluate" /\ b = "append"
    \/ a = "append" /\ b = "save_iteration" /\ save_dir /\ k % num_save = 0

Last(s) == s[Len(s)]

\* call n is the call run makes next after call n - 1: the one that follows
\* it within iteration k, or the first one of iteration k after the last one
\* of iteration k - 1 (after the initialization, or as the first call of
\* all, for k = 1)
InSequence(n) ==
    LET k == calls[n].it
        before == IF n = 1 THEN 0 ELSE calls[n - 1].it IN
    IF n > 1 /\ before = k
    THEN Follows(calls[n - 1].op, calls[n].op, k)
    ELSE /\ before = k - 1
         /\ calls[n].op = FirstCall(k)
         /\ k > 1 => calls[n - 1].op = LastCall(k - 1)

\* C12: the calls of run are grouped by iteration, in increasing order of
\* the iterations; those of an iteration that has begun are an initial part
\* of: train (only when k mod train_intervall = 0), update, maximize,
\* incumbent recomputation, evaluate, append, checkpoint (only when due),
\* each once, and no call follows one that raised; those of a completed
\* iteration are all of these.
C12_CallOrder ==
    pc \in {"loop", "incumbent", "evaluate", "done", "raised"} =>
        /\ \A n \in 1..(Len(calls) - 1) : calls[n].ok
        /\ \A n \in 1..Len(calls) :
            calls[n].it >= 1 => (calls[n].it <= it /\ InSequence(n))
        /\ pc \in {"loop", "done"} =>
            /\ it > 1 => Len(calls) > 0
            /\ Len(calls) > 0 =>
                /\ Last(calls).ok
                /\ Last(calls).it = it - 1
                /\ it > 1 => Last(calls).op = LastCall(it - 1)
        /\ pc = "incumbent" => Last(calls) = Call("maximize", it, TRUE, << >>)
        /\ pc = "evaluate" =>
            /\ Last(calls).ok
            /\ Last(calls).it = it
            /\ Last(calls).op = "incumbent"

\* a run of two iterations, the first without training and checkpoint, the
\* second with both
C12_Witness ==
    /\ pc = "done"
    /\ num_iterations = 3
    /\ train_intervall = 2
    /\ save_dir
    /\ num_save = 2
    /\ Len(CallsIn(1)) = 5
    /\ Len(CallsIn(2)) = 7
    /\ CallsIn(2)[1].op = "train"
    /\ CallsIn(2)[7].op = "save_iteration"

\* ----------------------------------------------------------------------- C13
\* C13 as stated: in a run, before every acquisition update and every
\* maximize call at least one model.train call has returned.
C13_TrainedBeforeUse ==
    \A n \in 1..Len(calls) :
        (calls[n].op \in {"update", "maximize"} /\ calls[n].it >= 1) =>
            \E m \in 1..(n - 1) : calls[m].op = "train" /\ calls[m].ok

\* ----------------------------------------------------------------------- C14
\* C14 as stated: model_untrained is false exactly when at least one
\* model.train call has returned.
C14_FlagIffTrained ==
    model_untrained <=> ~(\E n \in 1..Len(calls) : calls[n].op = "train" /\ calls[n].ok)

\* ----------------------------------------------------------------------- C15
\* b is a with one entry added at its end
ExtendsByOne(a, b) ==
    /\ Len(b) = Len(a) + 1
    /\ SubSeq(b, 1, Len(a)) = a

\* a step of run leaves each array as it is or adds one entry at its end; the
\* end of the incumbent recomputation adds one to the overhead timings, the
\* evaluation of the candidate one to each of the other three
AppendOnlyStep ==
    pc \in {"loop", "incumbent", "evaluate"} =>
        /\ X' = X \/ ExtendsByOne(X, X')
        /\ Y' = Y \/ ExtendsByOne(Y, Y')
        /\ time_func_eval' = time_func_eval
               \/ ExtendsByOne(time_func_eval, time_func_eval')
        /\ time_optimization_overhead' = time_optimization_overhead
               \/ ExtendsByOne(time_optimization_overhead, time_optimization_overhead')
        /\ (pc = "incumbent" /\ pc' = "evaluate") =>
               /\ ExtendsByOne(time_optimization_overhead, time_optimization_overhead')
               /\ X' = X /\ Y' = Y /\ time_func_eval' = time_func_eval
        /\ (pc = "evaluate" /\ pc' = "loop") =>
               /\ ExtendsByOne(X, X')
               /\ ExtendsByOne(Y, Y')
               /\ ExtendsByOne(time_func_eval, time_func_eval')
               /\ time_optimization_overhead' = time_optimization_overhead
               /\ it' = it + 1
        /\ (pc = "evaluate" /\ pc' = "raised") =>
               \/ arrays' = arrays
               \/ /\ ExtendsByOne(X, X')
                  /\ ExtendsByOne(Y, Y')
                  /\ ExtendsByOne(time_func_eval, time_func_eval')
                  /\ time_optimization_overhead' = time_optimization_overhead
        /\ (pc # "evaluate" /\ pc' \notin {"evaluate", "loop"}) => arrays' = arrays
        /\ (pc = "loop" /\ pc' = "incumbent") => arrays' = arrays /\ it' = it

\* C15: once run has set up the observation set, no step of run removes,
\* reorders or overwrites an entry of X, Y or a timing array: a step leaves
\* each of them as it is or adds one entry at its end, and a completed
\* iteration has added exactly one to each (the overhead timing when the
\* incumbent was recomputed, the other three when the candidate was
\* evaluated).
C15_AppendOnly == [][AppendOnlyStep]_vars

\* a run on two different prior rows has completed two iterations, and the
\* row the second one added differs from the one the first added
C15_Witness ==
    /\ ~fresh
    /\ pc = "done"
    /\ it = 3
    /\ Len(X_arg) = 2
    /\ X_arg[1] # X_arg[2]
    /\ Len(X) = 4
    /\ SubSeq(X, 1, 2) = X_arg
    /\ X[3] # X[4]
    /\ Len(time_optimization_overhead) = 4

\* ----------------------------------------------------------------------- C16
\* C16 as stated: whenever run is about to compute np.argmin(self.Y), for
\* any of the three incumbent policies, Y holds at least one value.
C16_ArgminOnNonEmpty ==
    pc = "incumbent" => Len(Y) >= 1

\* ----------------------------------------------------------------------- C17
\* the number of iterations range(1, num_iterations) has
Iterations == IF num_iterations >= 1 THEN num_iterations - 1 ELSE 0

\* C17 as stated: a run in which every collaborator call returns is not left
\* by an exception, and when it returns it has made num_iterations - 1
\* iterations with one task evaluation each (none, and no training and no
\* maximization, for num_iterations <= 1).
C17_ReturnsAfterIterations ==
    /\ pc = "raised" => \E n \in 1..Len(calls) : ~calls[n].ok
    /\ pc = "done" =>
        /\ it = Iterations + 1
        /\ \A k \in 1..Iterations :
            Count("evaluate", k) = 1 /\ Count("maximize", k) = 1
        /\ \A n \in 1..Len(calls) : calls[n].it <= Iterations
        /\ Iterations = 0 =>
            \A n \in 1..Len(calls) : calls[n].op \notin {"train", "update", "maximize"}

\* ----------------------------------------------------------------------- C18
\* the number of rows run started its loop with
BaseRows == IF fresh THEN Count("evaluate", 0) ELSE Len(X_arg)

\* C18: when maximize, task.evaluate or save_iteration raises in iteration
\* k >= 1, run is left with that exception: the failed call is the last call
\* and the only failed one, and X and Y are the initial or imported rows
\* followed by the rows of the iterations 1..k-1 (maximize, evaluate) or
\* 1..k (save_iteration), one each, with their values.
C18_FailurePropagates ==
    \A n \in 1..Len(calls) :
        (/\ calls[n].op \in {"maximize", "evaluate", "save_iteration"}
         /\ ~calls[n].ok
         /\ calls[n].it >= 1) =>
            LET k == calls[n].it
                appended == IF calls[n].op = "save_iteration" THEN k ELSE k - 1 IN
            /\ pc = "raised"
            /\ n = Len(calls)
            /\ \A m \in 1..(n - 1) : calls[m].ok
            /\ Count(calls[n].op, k) = 1
            /\ \A j \in 1..appended : Count("evaluate", j) = 1 /\ Count("append", j) = 1
            /\ Count("append", k) = (IF calls[n].op = "save_iteration" THEN 1 ELSE 0)
            /\ X = X_arg \o EvaluatedRows
            /\ Y = Y_arg \o ValuesOf(EvaluatedRows)
            /\ Len(X) = BaseRows + appended
            /\ Len(Y) = BaseRows + appended

\* save_iteration raised at the end of the second iteration of a run on
\* prior observations: X holds the prior rows and two more
C18_Witness ==
    /\ pc = "raised"
    /\ ~fresh
    /\ Len(X_arg) = 1
    /\ Len(calls) > 0
    /\ calls[Len(calls)].op = "save_iteration"
    /\ ~calls[Len(calls)].ok
    /\ calls[Len(calls)].it = 2
    /\ Len(X) = 3

\* ----------------------------------------------------------------------- C19
\* C19: with no recommendation strategy, what run returns after at least one
\* iteration is the row and the value at the first minimum of Y without its
\* last row, the one the last iteration evaluated and appended, however low
\* the value of that row is; what a fresh run returns after no iteration is
\* the first initialization point and its value, whatever the other initial
\* values are.
C19_ReturnedIncumbent ==
    (recommendation_strategy = "None" /\ pc = "done") =>
        IF num_iterations >= 2
        THEN LET before == SubSeq(Y, 1, Len(Y) - 1) IN
             /\ Len(before) >= 1
             /\ \E i \in 1..Len(before) :
                 /\ IsFirstMin(before, i)
                 /\ incumbent = X[i]
                 /\ incumbent_value = before[i]
        ELSE /\ fresh
             /\ incumbent = X[1]
             /\ incumbent_value = Y[1]

\* a run on one prior row returns that row after two iterations, the second
\* of which evaluated a lower value
C19_Witness ==
    /\ recommendation_strategy = "None"
    /\ pc = "done"
    /\ ~fresh
    /\ num_iterations = 3
    /\ Len(X_arg) = 1
    /\ Y[3][1] < Y[1][1]
    /\ Y[3][1] < Y[2][1]
    /\ incumbent = X_arg[1]
    /\ incumbent_value = Y_arg[1]

\* ----------------------------------------------------------------------- C20
\* run has left its loop and is at the statements that log and return the
\* incumbent, or has returned
AtReturn == (pc = "loop" /\ ~InLoop) \/ pc = "done"

\* C20 as stated: whenever run reaches its return, self.incumbent and
\* self.incumbent_value are both set, for every num_iterations, in a fresh
\* run and in a run on prior observations.
C20_IncumbentDefinedAtReturn ==
    AtReturn => (incumbent # None /\ incumbent_value # None)

====
